---------------------------- MODULE Spec2Model ----------------------------
(***************************************************************************)
(* Model of bulk_clone_repos.py: the report parser, the ranking pipeline   *)
(* (cache, metadata fetcher, report writer) and the clone/update executor, *)
(* run by main() one process at a time, with the files the script leaves   *)
(* behind carried from one run to the next.                                *)
(*                                                                         *)
(* Text is a sequence of tokens.  A token is an indivisible piece of text  *)
(* of at least one character; "/", "[", "]", "(", ")" and the white space  *)
(* tokens " " and "LF" (line feed) are single characters, so the string    *)
(* operations of the script (strip, split, replace, lower, the regular     *)
(* expression of the parser) are computed on tokens as the script computes *)
(* them on characters.  "BQ" stands for the backquote of the report.       *)
(***************************************************************************)
EXTENDS Integers, Sequences, FiniteSets, TLC

VARIABLES
    inputFile,         \* README.txt: [exists, lines]
    cacheFile,         \* api_cache.json: [exists, data], data a JSON object
    reportFile,        \* filtered.md: [exists, lines]
    dirs,              \* the directories that exist under CLONE_DIR
    config,            \* Config of the running process
    pc,                \* where the running process stands
    exitCode,          \* exit status of the process once pc = "exit"
    repos_to_process,  \* main: the list handed to clone_or_update_repos
    cache,             \* get_top_repos_from_api: the dict loaded from the cache file
    urls,              \* get_top_repos_from_api: what is left of the set being iterated
    all_repos_data,    \* get_top_repos_from_api: the metadata collected so far
    idx,               \* clone_or_update_repos: position in repos_to_process
    call,              \* the _fetch_repo_metadata call in progress or just returned
    run                \* what the current run has done so far (history)

vars == <<inputFile, cacheFile, reportFile, dirs, config, pc, exitCode,
          repos_to_process, cache, urls, all_repos_data, idx, call, run>>

---------------------------------------------------------------------------
(* Bounds of the model *)

\* runs of the script in one behaviour
MaxRuns == 2
\* lines of README.txt in the single-run specification
MaxLines == 3
\* rate-limit answers the API gives to one _fetch_repo_metadata call
MaxRetries == 1
\* items of the list given to clone_or_update_repos in SpecSync
MaxItems == 3

---------------------------------------------------------------------------
(* Config *)

\* Config.TOP_N_REPOS is 50 in the source; the model ranks at most three
\* repositories, so it is scaled down to make the truncation happen.
TOP_N_REPOS == 2
MAX_REPO_SIZE_KB == 5120
CLONE_DIR == "community-templates"

\* Config as shipped, and Config with the size limit lowered to 50 KB by an
\* edit between two runs
Configs == {[MAX_REPO_SIZE_KB |-> m] : m \in {MAX_REPO_SIZE_KB, 50}}

---------------------------------------------------------------------------
(* Text operations *)

Min(a, b) == IF a < b THEN a ELSE b
Max(a, b) == IF a > b THEN a ELSE b

WhiteSpace == {" ", "LF"}

RECURSIVE LStrip(_, _)
LStrip(s, chars) ==
    IF s # <<>> /\ Head(s) \in chars THEN LStrip(Tail(s), chars) ELSE s

RECURSIVE RStrip(_, _)
RStrip(s, chars) ==
    IF s # <<>> /\ s[Len(s)] \in chars
    THEN RStrip(SubSeq(s, 1, Len(s) - 1), chars)
    ELSE s

\* str.strip(chars)
Strip(s, chars) == RStrip(LStrip(s, chars), chars)

\* sub in s, for a token sub
Contains(s, tok) == \E i \in 1..Len(s) : s[i] = tok

\* str.split(sep): the pieces between the separators, empty pieces kept
RECURSIVE Split(_, _)
Split(s, sep) ==
    IF ~Contains(s, sep)
    THEN <<s>>
    ELSE LET i == CHOOSE k \in 1..Len(s) :
                     s[k] = sep /\ \A j \in 1..(k - 1) : s[j] # sep
         IN  <<SubSeq(s, 1, i - 1)>> \o Split(SubSeq(s, i + 1, Len(s)), sep)

\* parts[-2:]
LastTwo(parts) == SubSeq(parts, Max(1, Len(parts) - 1), Len(parts))

\* sep.join(parts)
RECURSIVE Join(_, _)
Join(parts, sep) ==
    IF parts = <<>> THEN <<>>
    ELSE IF Len(parts) = 1 THEN parts[1]
    ELSE parts[1] \o <<sep>> \o Join(Tail(parts), sep)

\* str.replace(tok, "")
Remove(s, tok) == SelectSeq(s, LAMBDA t : t # tok)

\* str.lower(), token by token
LowerTok(t) ==
    CASE t = "A" -> "a"
      [] t = "B" -> "b"
      [] t = "C" -> "c"
      [] OTHER -> t

Lower(s) == [i \in 1..Len(s) |-> LowerTok(s[i])]

\* repo_url.strip("/").split("/")
UrlParts(url) == Split(Strip(url, {"/"}), "/")


---------------------------------------------------------------------------
(* Values *)

\* Python's None, and its JSON form null
None == [py |-> "None"]
JsonNull == [json |-> "null"]

EmptyDict == [k \in {} |-> None]
NoFile == [exists |-> FALSE, lines |-> <<>>]
NoCacheFile == [exists |-> FALSE, data |-> EmptyDict]

\* dict.get(key, default)
Get(d, key, default) == IF key \in DOMAIN d THEN d[key] ELSE default

\* cache[url] = value
Put(d, key, value) ==
    [k \in DOMAIN d \cup {key} |-> IF k = key THEN value ELSE d[k]]

---------------------------------------------------------------------------
(* Cache store *)

\* json.dump(cache_data, f)
JsonDump(cache_data) ==
    [k \in DOMAIN cache_data |->
        IF cache_data[k] = None THEN JsonNull ELSE cache_data[k]]

\* json.load(f)
JsonLoad(data) ==
    [k \in DOMAIN data |-> IF data[k] = JsonNull THEN None ELSE data[k]]

load_cache(file) == IF file.exists THEN JsonLoad(file.data) ELSE EmptyDict

save_cache(cache_data) == [exists |-> TRUE, data |-> JsonDump(cache_data)]

---------------------------------------------------------------------------
(* Report parser *)

\* the tokens the pattern github.com accepts: its dot stands for any character
GithubDotCom == {"github.com", "github-com"}

\* the places of a line where \[(https://github.com/.+?)\] matches
LinkStarts(line) ==
    {i \in 1..Len(line) :
        /\ line[i] = "["
        /\ Len(line) >= i + 7
        /\ line[i + 1] = "https:"
        /\ line[i + 2] = "/"
        /\ line[i + 3] = "/"
        /\ line[i + 4] \in GithubDotCom
        /\ line[i + 5] = "/"
        /\ \E j \in (i + 7)..Len(line) :
               /\ line[j] = "]"
               /\ \A k \in (i + 6)..(j - 1) : line[k] # "LF"}

\* re.search(...).group(1) on one line, <<>> when there is no match
MatchLink(line) ==
    IF LinkStarts(line) = {} THEN <<>>
    ELSE LET i == CHOOSE a \in LinkStarts(line) :
                      \A b \in LinkStarts(line) : a <= b
             j == CHOOSE a \in (i + 7)..Len(line) :
                      /\ line[a] = "]"
                      /\ \A b \in (i + 7)..(a - 1) : line[b] # "]"
         IN  SubSeq(line, i + 1, j - 1)

RECURSIVE ExtractLinks(_)
ExtractLinks(lines) ==
    IF lines = <<>> THEN <<>>
    ELSE (IF MatchLink(Head(lines)) = <<>>
          THEN <<>>
          ELSE <<[url |-> MatchLink(Head(lines))]>>)
         \o ExtractLinks(Tail(lines))

parse_markdown_for_repos(file) ==
    IF file.exists THEN ExtractLinks(file.lines) ELSE <<>>

---------------------------------------------------------------------------
(* Report writer *)

\* f"{size / 1024:.2f} MB"
SizeMB(size) ==
    LET h == (size * 200 + 1024) \div 2048
    IN  <<ToString(h \div 100), ".", ToString((h % 100) \div 10),
          ToString(h % 10), " ", "MB">>

ReportHeader(n) ==
    << <<"#", " ", "Top", " ", ToString(n), " ", "repositories", " ", "(",
         "limit", " ", ToString(MAX_REPO_SIZE_KB), "KB", ")", "LF">>,
       <<"LF">>,
       <<"*", "generated", " ", "at", " ", "timestamp", "*", "LF">>,
       <<"*", "delete", " ", "this", " ", "file", "*", "LF">>,
       <<"LF">>,
       <<"|", " ", "Rank", " ", "|", " ", "Name", " ", "|", " ", "Stars", " ",
         "|", " ", "Size", " ", "|", " ", "URL", " ", "|", "LF">>,
       <<"|", "------", "|", "------", "|", "------", "|", "------", "|",
         "------", "|", "LF">> >>

\* owner, repo_name = repo['url'].strip("/").split('/')[-2:] needs two parts
RowUnpacks(repo) == Len(LastTwo(UrlParts(repo.url))) = 2

ReportRow(i, repo) ==
    LET parts == LastTwo(UrlParts(repo.url))
        owner == parts[1]
        repo_name == Remove(parts[2], ".git")
    IN  <<"|", " ", ToString(i), " ", "|", " ", "BQ">> \o owner \o <<"/">>
        \o repo_name
        \o <<"BQ", " ", "|", " ", ToString(repo.stars), " ", "|", " ", "BQ">>
        \o SizeMB(repo.size)
        \o <<"BQ", " ", "|", " ", "[">> \o repo.url \o <<"]", "(">> \o repo.url
        \o <<")", " ", "|", "LF">>

\* the rows written before a row fails to unpack, or all of them
RECURSIVE ReportRows(_, _)
ReportRows(i, repos) ==
    IF i > Len(repos) \/ ~RowUnpacks(repos[i]) THEN <<>>
    ELSE <<ReportRow(i, repos[i])>> \o ReportRows(i + 1, repos)

\* the file left behind, and whether a ValueError left the function
write_markdown_file(repos) ==
    [raised |-> \E i \in 1..Len(repos) : ~RowUnpacks(repos[i]),
     file   |-> [exists |-> TRUE,
                 lines  |-> ReportHeader(Len(repos)) \o ReportRows(1, repos)]]

---------------------------------------------------------------------------
(* Ranking *)

\* list(set(line.strip() for line in f if "github.com" in line.strip()))
ReadUrls(lines) ==
    {Strip(lines[i], WhiteSpace) : i \in
        {k \in 1..Len(lines) : Contains(Strip(lines[k], WhiteSpace), "github.com")}}

\* Faulty variant of SortInsert: sorts without reverse=True.
SortInsertAscending(sorted, x) ==
    LET k == Cardinality({i \in 1..Len(sorted) : sorted[i].stars <= x.stars})
    IN  SubSeq(sorted, 1, k) \o <<x>> \o SubSeq(sorted, k + 1, Len(sorted))

\* list.sort(key=stars, reverse=True): stable, larger star counts first
SortInsert(sorted, x) ==
    LET k == Cardinality({i \in 1..Len(sorted) : sorted[i].stars >= x.stars})
    IN  SubSeq(sorted, 1, k) \o <<x>> \o SubSeq(sorted, k + 1, Len(sorted))

RECURSIVE SortByStars(_)
SortByStars(s) ==
    IF s = <<>> THEN <<>>
    ELSE SortInsert(SortByStars(SubSeq(s, 1, Len(s) - 1)), s[Len(s)])

\* all_repos_data[:config.TOP_N_REPOS]
TopN(sorted) == SubSeq(sorted, 1, Min(TOP_N_REPOS, Len(sorted)))

---------------------------------------------------------------------------
(* Metadata fetcher *)

\* the API path requested for a repository URL
ApiUrl(repo_url) ==
    <<"https:", "/", "/", "api.github.com", "/", "repos", "/">>
    \o Remove(Join(LastTwo(UrlParts(repo_url)), "/"), ".git")

\* Faulty variant of CacheLookup: a cached record is returned without being
\* compared with the current MAX_REPO_SIZE_KB.
CacheLookupNoRecheck(c, repo_url, cfg) ==
    IF repo_url \notin DOMAIN c THEN [outcome |-> "miss", ret |-> None]
    ELSE IF c[repo_url] = None THEN [outcome |-> "TypeError", ret |-> None]
    ELSE IF "size" \notin DOMAIN c[repo_url] THEN [outcome |-> "miss", ret |-> None]
    ELSE [outcome |-> "return", ret |-> c[repo_url]]

\* The cache test that opens _fetch_repo_metadata.  "'size' in cache[url]"
\* raises TypeError when the entry is None.
CacheLookup(c, repo_url, cfg) ==
    IF repo_url \notin DOMAIN c THEN [outcome |-> "miss", ret |-> None]
    ELSE IF c[repo_url] = None THEN [outcome |-> "TypeError", ret |-> None]
    ELSE IF "size" \notin DOMAIN c[repo_url] THEN [outcome |-> "miss", ret |-> None]
    ELSE IF c[repo_url].size > cfg.MAX_REPO_SIZE_KB
         THEN [outcome |-> "return", ret |-> None]
         ELSE [outcome |-> "return", ret |-> c[repo_url]]

Statuses == {200, 403, 404, 429, 451, 500}
EmptyObject == [k \in {} |-> 0]
Bodies == {EmptyObject,
           [stargazers_count |-> 300, size |-> 100],
           [stargazers_count |-> 500, size |-> 100],
           [stargazers_count |-> 500, size |-> 8000]}

NetworkError ==
    [kind |-> "neterr", status |-> 0, hasRemaining |-> FALSE, remaining |-> 0,
     json |-> FALSE, body |-> EmptyObject]
NoResponse ==
    [kind |-> "none", status |-> 0, hasRemaining |-> FALSE, remaining |-> 0,
     json |-> FALSE, body |-> EmptyObject]

\* the X-RateLimit-Remaining header: missing, zero, or some quota left
Quotas == {[has |-> FALSE, left |-> 0], [has |-> TRUE, left |-> 0],
           [has |-> TRUE, left |-> 1]}

HttpResponse(s, h, isJson, b) ==
    [kind |-> "http", status |-> s, hasRemaining |-> h.has, remaining |-> h.left,
     json |-> isJson, body |-> b]

\* what requests.get can come back with: a network error, an error status
\* (its body is never read), or status 200 with a body that parses or not
Responses ==
    {NetworkError}
    \cup {HttpResponse(s, h, FALSE, EmptyObject) : s \in Statuses \ {200}, h \in Quotas}
    \cup {HttpResponse(200, h, FALSE, EmptyObject) : h \in Quotas}
    \cup {HttpResponse(200, h, TRUE, b) : h \in Quotas, b \in Bodies}

\* Faulty variant of HandleResponse: a 404 answer is remembered as a
\* tombstone.
HandleResponseCachesNotFound(r, repo_url, c, cfg) ==
    IF r.kind = "neterr" THEN [outcome |-> "return", ret |-> None, cache |-> c]
    ELSE IF r.status = 404
    THEN [outcome |-> "return", ret |-> None, cache |-> Put(c, repo_url, None)]
    ELSE IF r.status \in {403, 451}
    THEN [outcome |-> "return", ret |-> None, cache |-> c]
    ELSE IF r.status = 429 \/ (r.hasRemaining /\ r.remaining = 0)
    THEN [outcome |-> "retry", ret |-> None, cache |-> c]
    ELSE IF r.status >= 400 \/ ~r.json
    THEN [outcome |-> "return", ret |-> None, cache |-> c]
    ELSE LET repo_size_kb == Get(r.body, "size", 0)
             result == [url |-> repo_url,
                        stars |-> Get(r.body, "stargazers_count", 0),
                        size |-> repo_size_kb]
         IN  IF repo_size_kb > cfg.MAX_REPO_SIZE_KB
             THEN [outcome |-> "return", ret |-> None,
                   cache |-> Put(c, repo_url, None)]
             ELSE [outcome |-> "return", ret |-> result,
                   cache |-> Put(c, repo_url, result)]

\* The try block of _fetch_repo_metadata on one response: what the call does
\* next, what it returns and the cache it leaves.
HandleResponse(r, repo_url, c, cfg) ==
    IF r.kind = "neterr" THEN [outcome |-> "return", ret |-> None, cache |-> c]
    ELSE IF r.status \in {404, 403, 451}
    THEN [outcome |-> "return", ret |-> None, cache |-> c]
    ELSE IF r.status = 429 \/ (r.hasRemaining /\ r.remaining = 0)
    THEN [outcome |-> "retry", ret |-> None, cache |-> c]
    ELSE IF r.status >= 400 \/ ~r.json
    THEN [outcome |-> "return", ret |-> None, cache |-> c]
    ELSE LET repo_size_kb == Get(r.body, "size", 0)
             result == [url |-> repo_url,
                        stars |-> Get(r.body, "stargazers_count", 0),
                        size |-> repo_size_kb]
         IN  IF repo_size_kb > cfg.MAX_REPO_SIZE_KB
             THEN [outcome |-> "return", ret |-> None,
                   cache |-> Put(c, repo_url, None)]
             ELSE [outcome |-> "return", ret |-> result,
                   cache |-> Put(c, repo_url, result)]

---------------------------------------------------------------------------
(* Clone/update executor *)

\* What the body of the try block raises before git runs: KeyError for an
\* item without 'url', IndexError for parts[-2] of a URL of one part.
ItemError(repo) ==
    IF "url" \notin DOMAIN repo THEN "KeyError"
    ELSE IF Len(UrlParts(repo.url)) < 2 THEN "IndexError"
    ELSE ""

\* Faulty variant of Caught: only the failure of git is caught.
CaughtGitOnly(exception) == exception = "CalledProcessError"

\* except (subprocess.CalledProcessError, IndexError, KeyError)
Caught(exception) ==
    exception \in {"CalledProcessError", "IndexError", "KeyError"}

\* Faulty variant of TargetDir: the directory is named after the repository
\* alone.
TargetDirNameOnly(repo) ==
    LET parts == UrlParts(repo.url)
    IN  <<CLONE_DIR, "/">> \o Lower(Remove(parts[Len(parts)], ".git"))

\* os.path.join(config.CLONE_DIR, f"{owner}__{repo_name}".lower())
TargetDir(repo) ==
    LET parts == UrlParts(repo.url)
        owner == parts[Len(parts) - 1]
        repo_name == Remove(parts[Len(parts)], ".git")
    IN  <<CLONE_DIR, "/">> \o Lower(owner \o <<"__">> \o repo_name)

---------------------------------------------------------------------------
(* The inputs of the model *)

LineA == <<"https:", "/", "/", "github.com", "/", "A", "/", "r", "LF">>
LineB == <<" ", "https:", "/", "/", "github.com", "/", "B", "/", "r", ".git",
           " ", "LF">>
LineC == <<"http:", "/", "/", "github.com", "/", "C", "/", "r", "LF">>
LineX == <<"https:", "/", "/", "gitlab.com", "/", "x", "/", "r", "LF">>
Lines == {LineA, LineB, LineC, LineX}

UrlA == Strip(LineA, WhiteSpace)
UrlB == Strip(LineB, WhiteSpace)
UrlC == Strip(LineC, WhiteSpace)

TextFile(lines) == [exists |-> TRUE, lines |-> lines]

\* README.txt of the runs that follow one another: missing, empty or one line
RunInputs == {NoFile, TextFile(<<>>)} \cup {TextFile(<<l>>) : l \in Lines}

\* README.txt of a single run: up to MaxLines lines
RankInputs ==
    {NoFile} \cup {TextFile(f) : f \in UNION {[1..n -> Lines] : n \in 0..MaxLines}}

\* a cache file written before the size filter existed: records without 'size'
LegacyCacheFile ==
    [exists |-> TRUE, data |-> Put(EmptyDict, UrlA, [url |-> UrlA, stars |-> 300])]

\* the items given to clone_or_update_repos when it is taken alone
ItemA == [url |-> UrlA]
ItemB == [url |-> UrlB, stars |-> 300, size |-> 100]
ItemLower == [url |-> <<"https:", "/", "/", "github.com", "/", "a", "/", "r", "/">>]
ItemShort == [url |-> <<"github.com">>]
ItemNoUrl == [stars |-> 300]
Items == {ItemA, ItemB, ItemLower, ItemShort, ItemNoUrl}

SyncInputs == UNION {[1..n -> Items] : n \in 0..MaxItems}

---------------------------------------------------------------------------
(* State *)

NoCall ==
    [url |-> <<>>, api_url |-> <<>>, cache0 |-> EmptyDict, nreq |-> 0,
     resp |-> NoResponse, ret |-> None]

NewRun(no, cfile, rfile, ds) ==
    [no |-> no, cacheFile0 |-> cfile, reportFile0 |-> rfile, dirs0 |-> ds,
     ranked |-> FALSE,
     readInput |-> FALSE, requested |-> FALSE, raised |-> "",
     answered |-> [k \in {} |-> "none"], git |-> <<>>]

\* what a call returned on, kept for the run: the cache, or the kind of answer
Summary(c) ==
    IF c.nreq = 0 THEN [how |-> "cache", body |-> EmptyObject]
    ELSE IF c.resp.kind = "http" /\ c.resp.status = 404
    THEN [how |-> "404", body |-> EmptyObject]
    ELSE IF c.resp.kind = "http" /\ c.resp.status \in {403, 451}
    THEN [how |-> "denied", body |-> EmptyObject]
    ELSE IF c.resp.kind = "neterr" \/ c.resp.status >= 400 \/ ~c.resp.json
    THEN [how |-> "failed", body |-> EmptyObject]
    ELSE [how |-> "ok", body |-> c.resp.body]

ProcessStart ==
    /\ pc = "main"
    /\ exitCode = -1
    /\ repos_to_process = <<>>
    /\ cache = EmptyDict
    /\ urls = {}
    /\ all_repos_data = <<>>
    /\ idx = 0
    /\ call = NoCall

\* The script is started in a directory that holds README.txt or not, and
\* nothing else of its own yet.
Init ==
    /\ inputFile \in RunInputs
    /\ cacheFile \in {NoCacheFile, LegacyCacheFile}
    /\ reportFile = NoFile
    /\ dirs = {}
    /\ config \in Configs
    /\ ProcessStart
    /\ run = NewRun(1, cacheFile, reportFile, dirs)

InitRank ==
    /\ inputFile \in RankInputs
    /\ cacheFile = NoCacheFile
    /\ reportFile = NoFile
    /\ dirs = {}
    /\ config = [MAX_REPO_SIZE_KB |-> MAX_REPO_SIZE_KB]
    /\ ProcessStart
    /\ run = NewRun(1, cacheFile, reportFile, dirs)

\* clone_or_update_repos alone, on any list and any directories left by
\* earlier clones
InitSync ==
    /\ inputFile = NoFile
    /\ cacheFile = NoCacheFile
    /\ reportFile = NoFile
    /\ dirs \in SUBSET {TargetDir(ItemA), TargetDir(ItemB)}
    /\ config = [MAX_REPO_SIZE_KB |-> MAX_REPO_SIZE_KB]
    /\ pc = "sync"
    /\ exitCode = -1
    /\ repos_to_process \in SyncInputs
    /\ cache = EmptyDict
    /\ urls = {}
    /\ all_repos_data = <<>>
    /\ idx = 0
    /\ call = NoCall
    /\ run = NewRun(1, cacheFile, reportFile, dirs)

files == <<inputFile, cacheFile, reportFile, dirs>>
rankVars == <<cache, urls, all_repos_data, call>>

\* the process ends: sys.exit, an uncaught exception, or main returning
Exit(code, exception) ==
    /\ pc' = "exit"
    /\ exitCode' = code
    /\ run' = [run EXCEPT !.raised = exception]

---------------------------------------------------------------------------
(* main *)

\* Faulty variant of FallsBackToApi: the ranking pipeline is always run.
FallsBackAlways(repos) == TRUE

\* if not repos_to_process: the ranking pipeline is run
FallsBackToApi(repos) == repos = <<>>

\* repos_to_process = parse_markdown_for_repos(config.MARKDOWN_RESULT_FILE)
ParseReport ==
    /\ pc = "main"
    /\ repos_to_process' = parse_markdown_for_repos(reportFile)
    /\ pc' = IF FallsBackToApi(repos_to_process') THEN "rank" ELSE "sync"
    /\ UNCHANGED <<files, config, exitCode, rankVars, idx, run>>

---------------------------------------------------------------------------
(* get_top_repos_from_api *)

\* _load_cache, then the input list is read or the process exits with 1
LoadAndRead ==
    /\ pc = "rank"
    /\ cache' = load_cache(cacheFile)
    /\ IF inputFile.exists
       THEN /\ urls' = ReadUrls(inputFile.lines)
            /\ pc' = "loop"
            /\ run' = [run EXCEPT !.ranked = TRUE, !.readInput = TRUE]
            /\ UNCHANGED exitCode
       ELSE /\ pc' = "exit"
            /\ exitCode' = 1
            /\ run' = [run EXCEPT !.ranked = TRUE, !.raised = "SystemExit"]
            /\ UNCHANGED urls
    /\ UNCHANGED <<files, config, repos_to_process, all_repos_data, idx, call>>

\* Entering _fetch_repo_metadata(call'.url, cache, config): the cache test.
\* A TypeError leaves get_top_repos_from_api and main uncaught.
EnterFetch ==
    LET look == CacheLookup(cache, call'.url, config)
    IN  IF look.outcome = "TypeError"
        THEN Exit(1, "TypeError")
        ELSE /\ pc' = IF look.outcome = "return" THEN "returned" ELSE "request"
             /\ UNCHANGED <<exitCode, run>>

\* for url in urls: repo_info = _fetch_repo_metadata(url, cache, config)
CallFetch ==
    /\ pc = "loop"
    /\ \E url \in urls :
         call' = [NoCall EXCEPT !.url = url, !.api_url = ApiUrl(url), !.cache0 = cache,
                                !.ret = CacheLookup(cache, url, config).ret]
    /\ EnterFetch
    /\ UNCHANGED <<files, config, repos_to_process, cache, urls, all_repos_data, idx>>

\* requests.get answers and the try block runs on the answer
Respond ==
    /\ pc = "request"
    /\ \E r \in Responses :
         LET h == HandleResponse(r, call.url, cache, config)
         IN  /\ h.outcome = "retry" => call.nreq < MaxRetries
             /\ cache' = h.cache
             /\ call' = [call EXCEPT !.nreq = @ + 1, !.resp = r, !.ret = h.ret]
             /\ pc' = IF h.outcome = "retry" THEN "sleep" ELSE "returned"
    /\ run' = [run EXCEPT !.requested = TRUE]
    /\ UNCHANGED <<files, config, exitCode, repos_to_process, urls, all_repos_data, idx>>

\* time.sleep(wait_time) is over: return _fetch_repo_metadata(repo_url, cache, config)
Retry ==
    /\ pc = "sleep"
    /\ call' = [call EXCEPT !.resp = NoResponse,
                            !.ret = CacheLookup(cache, call.url, config).ret]
    /\ EnterFetch
    /\ UNCHANGED <<files, config, repos_to_process, cache, urls, all_repos_data, idx>>

\* if repo_info: all_repos_data.append(repo_info)
Collect ==
    /\ pc = "returned"
    /\ all_repos_data' =
          IF call.ret # None THEN Append(all_repos_data, call.ret) ELSE all_repos_data
    /\ urls' = urls \ {call.url}
    /\ run' = [run EXCEPT !.answered = Put(@, call.url, Summary(call))]
    /\ call' = NoCall
    /\ pc' = "loop"
    /\ UNCHANGED <<files, config, exitCode, repos_to_process, cache, idx>>

\* _save_cache, sort, truncate, _write_markdown_file, return top_repos
Finish ==
    /\ pc = "loop"
    /\ urls = {}
    /\ cacheFile' = save_cache(cache)
    /\ all_repos_data' = SortByStars(all_repos_data)
    /\ LET top_repos == TopN(all_repos_data')
           written == write_markdown_file(top_repos)
       IN  /\ reportFile' = written.file
           /\ IF written.raised
              THEN /\ Exit(1, "ValueError")
                   /\ UNCHANGED repos_to_process
              ELSE /\ repos_to_process' = top_repos
                   /\ pc' = "sync"
                   /\ UNCHANGED <<exitCode, run>>
    /\ UNCHANGED <<inputFile, dirs, config, cache, urls, idx, call>>

---------------------------------------------------------------------------
(* clone_or_update_repos *)

\* an empty list returns at once and main ends; otherwise the loop starts
SyncStart ==
    /\ pc = "sync"
    /\ IF repos_to_process = <<>>
       THEN /\ pc' = "exit"
            /\ exitCode' = 0
            /\ UNCHANGED idx
       ELSE /\ pc' = "sync_loop"
            /\ idx' = 1
            /\ UNCHANGED exitCode
    /\ UNCHANGED <<files, config, repos_to_process, rankVars, run>>

\* One turn of the loop: the item is parsed, git pull or git clone runs and
\* succeeds or fails; a caught failure is logged and the loop goes on.
SyncItem ==
    /\ pc = "sync_loop"
    /\ idx <= Len(repos_to_process)
    /\ \E git_ok \in BOOLEAN :
         LET repo == repos_to_process[idx]
             parses == ItemError(repo) = ""
             target_dir == IF parses THEN TargetDir(repo) ELSE <<>>
             op == IF ~parses THEN "none"
                   ELSE IF target_dir \in dirs THEN "pull" ELSE "clone"
             error == IF ~parses THEN ItemError(repo)
                      ELSE IF git_ok THEN "" ELSE "CalledProcessError"
             entry == [item |-> idx, op |-> op, dir |-> target_dir, error |-> error]
         IN  /\ parses \/ git_ok
             /\ dirs' = IF op = "clone" /\ git_ok THEN dirs \cup {target_dir} ELSE dirs
             /\ IF error = "" \/ Caught(error)
                THEN /\ run' = [run EXCEPT !.git = Append(@, entry)]
                     /\ idx' = idx + 1
                     /\ UNCHANGED <<pc, exitCode>>
                ELSE /\ pc' = "exit"
                     /\ exitCode' = 1
                     /\ run' = [run EXCEPT !.git = Append(@, entry), !.raised = error]
                     /\ UNCHANGED idx
    /\ UNCHANGED <<inputFile, cacheFile, reportFile, config, repos_to_process, rankVars>>

\* the loop is over, main prints its last line and the process ends
SyncReturn ==
    /\ pc = "sync_loop"
    /\ idx > Len(repos_to_process)
    /\ pc' = "exit"
    /\ exitCode' = 0
    /\ UNCHANGED <<files, config, repos_to_process, rankVars, idx, run>>

---------------------------------------------------------------------------
(* Between two runs *)

\* The script is started again; before that the user may have edited Config
\* and may have deleted filtered.md to force a new ranking.
NextRun ==
    /\ pc = "exit"
    /\ run.no < MaxRuns
    /\ config' \in Configs
    /\ \E delete \in BOOLEAN :
         reportFile' = IF delete THEN NoFile ELSE reportFile
    /\ pc' = "main"
    /\ exitCode' = -1
    /\ repos_to_process' = <<>>
    /\ cache' = EmptyDict
    /\ urls' = {}
    /\ all_repos_data' = <<>>
    /\ idx' = 0
    /\ call' = NoCall
    /\ run' = NewRun(run.no + 1, cacheFile, reportFile', dirs)
    /\ UNCHANGED <<inputFile, cacheFile, dirs>>

---------------------------------------------------------------------------
(* Specifications *)

RankStep == LoadAndRead \/ CallFetch \/ Respond \/ Retry \/ Collect \/ Finish
SyncStep == SyncStart \/ SyncItem \/ SyncReturn
MainStep == ParseReport \/ RankStep \/ SyncStep

\* runs of the script one after the other
Next == MainStep \/ NextRun
Spec == Init /\ [][Next]_vars

\* one run of the script on a list of up to MaxLines lines
NextRank == MainStep
SpecRank == InitRank /\ [][NextRank]_vars

\* clone_or_update_repos on a list of up to MaxItems items
NextSync == SyncStep
SpecSync == InitSync /\ [][NextSync]_vars

---------------------------------------------------------------------------
(* Properties of _fetch_repo_metadata *)

\* a call of _fetch_repo_metadata is in progress or has just returned
InCall == call.url # <<>>

\* the call found a tombstone, or a record with a size, under its URL
OnTombstone ==
    InCall /\ call.url \in DOMAIN call.cache0 /\ call.cache0[call.url] = None
OnSizedRecord ==
    /\ InCall
    /\ call.url \in DOMAIN call.cache0
    /\ call.cache0[call.url] # None
    /\ "size" \in DOMAIN call.cache0[call.url]

\* the rate-limit signal of the specification: status 429, or a remaining
\* quota of zero, whatever the status
RateLimitSignal(r) ==
    r.kind = "http" /\ (r.status = 429 \/ (r.hasRemaining /\ r.remaining = 0))

\* C1: a call that finds a tombstone under its URL returns None at once,
\* without a request and without touching the cache, so the run goes on.
C1_TombstoneSkipped ==
    OnTombstone =>
        /\ pc = "returned"
        /\ call.ret = None
        /\ call.nreq = 0
        /\ cache = call.cache0

\* C2: a call never returns on an answer that carries a rate-limit signal;
\* it waits and asks again.
C2_RateLimitRetried ==
    (pc = "returned" /\ call.nreq > 0) => ~RateLimitSignal(call.resp)

\* C5: a call that finds a record with a size under its URL makes no request
\* and leaves the cache alone; it returns the record when its size is within
\* the current limit and None when it is above it.
C5_CachedRecordServed ==
    OnSizedRecord =>
        /\ pc = "returned"
        /\ call.nreq = 0
        /\ cache = call.cache0
        /\ call.ret = IF call.cache0[call.url].size <= config.MAX_REPO_SIZE_KB
                      THEN call.cache0[call.url]
                      ELSE None

\* a record cached by an earlier run is refused under a lowered limit
C5_Witness ==
    /\ OnSizedRecord
    /\ pc = "returned"
    /\ call.cache0[call.url].size > config.MAX_REPO_SIZE_KB
    /\ call.ret = None

\* C9: a call that asks the API writes the cache only on a successful answer
\* and only under its URL: a tombstone (and None returned) when the size is
\* above the limit, else the record {url, stars, size}, which it returns; on
\* any other answer it returns None and leaves the cache as it was, so the
\* URL is looked up as a miss again.
C9_CacheWrittenOnSuccessOnly ==
    /\ pc \in {"request", "sleep"} => cache = call.cache0
    /\ (pc = "returned" /\ call.nreq > 0) =>
         LET r == call.resp
             size == Get(r.body, "size", 0)
             record == [url |-> call.url,
                        stars |-> Get(r.body, "stargazers_count", 0),
                        size |-> size]
         IN  IF r.kind = "http" /\ r.status = 200 /\ r.json
             THEN IF size > config.MAX_REPO_SIZE_KB
                  THEN /\ call.ret = None
                       /\ cache = Put(call.cache0, call.url, None)
                  ELSE /\ call.ret = record
                       /\ cache = Put(call.cache0, call.url, record)
             ELSE /\ call.ret = None
                  /\ cache = call.cache0
                  /\ CacheLookup(cache, call.url, config).outcome = "miss"

\* a tombstone is stored beside an entry of another URL, which is kept
C9_Witness ==
    /\ pc = "returned"
    /\ call.nreq > 0
    /\ call.ret = None
    /\ call.url \notin DOMAIN call.cache0
    /\ DOMAIN call.cache0 # {}
    /\ cache = Put(call.cache0, call.url, None)

---------------------------------------------------------------------------
(* Properties of a run *)

\* C3: the process ends with a non-zero status exactly when the ranking
\* pipeline ran and README.txt was missing.
C3_OnlyMissingInputAborts ==
    pc = "exit" => ((exitCode # 0) <=> (run.ranked /\ ~inputFile.exists))

\* the URLs of a list of repositories, as the parser returns them
UrlsOf(repos) == [i \in 1..Len(repos) |-> [url |-> repos[i].url]]

\* C4: the report written for a ranked list parses back to the URLs of the
\* list, in order.
C4_RoundTrip ==
    (pc = "sync" /\ run.ranked) =>
        parse_markdown_for_repos(reportFile) = UrlsOf(repos_to_process)

\* what _fetch_repo_metadata returned for a URL of this run, by the answer
\* the call returned on
Returned(u) ==
    LET a == run.answered[u]
        record == [url |-> u, stars |-> Get(a.body, "stargazers_count", 0),
                   size |-> Get(a.body, "size", 0)]
        cached == JsonLoad(run.cacheFile0.data)[u]
    IN  IF a.how = "ok"
        THEN IF record.size <= config.MAX_REPO_SIZE_KB THEN record ELSE None
        ELSE IF a.how = "cache"
        THEN IF cached.size <= config.MAX_REPO_SIZE_KB THEN cached ELSE None
        ELSE None

\* the scenario [A (404), B (300 stars, 100 KB), C (500 stars, 8000 KB)]
Scenario ==
    /\ ~run.cacheFile0.exists
    /\ config.MAX_REPO_SIZE_KB = 5120
    /\ DOMAIN run.answered = {UrlA, UrlB, UrlC}
    /\ run.answered[UrlA].how = "404"
    /\ run.answered[UrlB] =
          [how |-> "ok", body |-> [stargazers_count |-> 300, size |-> 100]]
    /\ run.answered[UrlC] =
          [how |-> "ok", body |-> [stargazers_count |-> 500, size |-> 8000]]

\* C6: the list get_top_repos_from_api returns has at most TOP_N_REPOS
\* entries, in order of star count, larger first; each entry is what
\* _fetch_repo_metadata returned for its URL; no returned repository left out
\* has more stars than one that is in the list; and the scenario yields [B],
\* with C a tombstone of the cache and A not in it.
C6_Ranking ==
    (pc = "sync" /\ run.ranked) =>
        LET top == repos_to_process
            fetched == {u \in DOMAIN run.answered : Returned(u) # None}
            listed == {top[i].url : i \in 1..Len(top)}
        IN  /\ Len(top) <= TOP_N_REPOS
            /\ \A i \in 1..(Len(top) - 1) : top[i].stars >= top[i + 1].stars
            /\ \A i \in 1..Len(top) :
                   top[i].url \in fetched /\ top[i] = Returned(top[i].url)
            /\ \A u \in fetched \ listed : \A i \in 1..Len(top) :
                   Returned(u).stars <= top[i].stars
            /\ Scenario =>
                   /\ top = <<[url |-> UrlB, stars |-> 300, size |-> 100]>>
                   /\ cache[UrlC] = None
                   /\ UrlA \notin DOMAIN cache

\* three repositories are returned, the one with the fewest stars is cut
C6_Witness ==
    /\ pc = "sync"
    /\ run.ranked
    /\ Len(all_repos_data) = 3
    /\ Len(repos_to_process) = TOP_N_REPOS
    /\ all_repos_data[1].stars > all_repos_data[3].stars

\* C10: when the report yields links, the run makes no request, reads no
\* input list, leaves the cache file and the report as they were and hands
\* the links, in the order of the file, to clone_or_update_repos; the ranking
\* pipeline runs exactly when the report yields none, and its list is what
\* clone_or_update_repos is given.
C10_ReportFirst ==
    LET parsed == parse_markdown_for_repos(run.reportFile0)
    IN  pc # "main" =>
            IF parsed # <<>>
            THEN /\ pc \in {"sync", "sync_loop", "exit"}
                 /\ ~run.ranked /\ ~run.requested /\ ~run.readInput
                 /\ cacheFile = run.cacheFile0
                 /\ reportFile = run.reportFile0
                 /\ repos_to_process = parsed
            ELSE /\ pc # "rank" => run.ranked
                 /\ pc \in {"sync", "sync_loop"} =>
                        repos_to_process = TopN(all_repos_data)

\* a second run that takes its list from the report of the first
C10_Witness ==
    /\ pc = "exit"
    /\ run.no = 2
    /\ parse_markdown_for_repos(run.reportFile0) # <<>>
    /\ ~run.ranked
    /\ Len(run.git) = Len(repos_to_process)
    /\ Len(run.git) > 0

---------------------------------------------------------------------------
(* Properties of clone_or_update_repos *)

OwnerOf(url) == UrlParts(url)[Len(UrlParts(url)) - 1]
NameOf(url) == Remove(UrlParts(url)[Len(UrlParts(url))], ".git")

\* whether a directory existed when entry i of the log was made
ExistedAt(i, dir) ==
    \/ dir \in run.dirs0
    \/ \E j \in 1..(i - 1) :
          run.git[j].op = "clone" /\ run.git[j].dir = dir /\ run.git[j].error = ""

\* C8: a repository is given the directory CLONE_DIR/lower(owner__name); one
\* git operation is run for it, a pull when the directory existed at that
\* moment and a clone otherwise; repositories of the same name under owners
\* that differ (GitHub owners are compared without regard to case) get
\* different directories.
C8_OneGitOperation ==
    \A i \in 1..Len(run.git) :
        LET e == run.git[i]
            repo == repos_to_process[e.item]
        IN  e.op # "none" =>
              /\ e.item = i
              /\ e.dir = <<CLONE_DIR, "/">>
                           \o Lower(OwnerOf(repo.url) \o <<"__">> \o NameOf(repo.url))
              /\ e.op = IF ExistedAt(i, e.dir) THEN "pull" ELSE "clone"
              /\ \A j \in 1..Len(run.git) :
                    (/\ run.git[j].op # "none"
                     /\ NameOf(repos_to_process[j].url) = NameOf(repo.url)
                     /\ Lower(OwnerOf(repos_to_process[j].url)) # Lower(OwnerOf(repo.url)))
                        => run.git[j].dir # e.dir

\* A/r is cloned, B/r goes to another directory, A/r is then pulled
C8_Witness ==
    /\ pc = "exit"
    /\ Len(run.git) = 3
    /\ run.git[1].op = "clone" /\ run.git[1].error = ""
    /\ run.git[2].op = "clone" /\ run.git[2].dir # run.git[1].dir
    /\ NameOf(repos_to_process[2].url) = NameOf(repos_to_process[1].url)
    /\ run.git[3].op = "pull" /\ run.git[3].dir = run.git[1].dir

=============================================================================
